---- MODULE Spec2Model ----
(***************************************************************************)
(* Model of .github/scripts/autoProtect.py: the batch job that re-encodes  *)
(* PROTECT-tagged zip archives of the dump folder with a password, keeping *)
(* a ".backup" copy of each archive it rewrites.                           *)
(*                                                                         *)
(* The file system is the state: for each archive the bytes at its own     *)
(* path and at its backup path, and the scratch directories that exist.    *)
(* Every I/O call of the script is one action; an I/O call that can fail   *)
(* chooses its outcome nondeterministically.                               *)
(***************************************************************************)
EXTENDS Integers, Sequences, FiniteSets, TLC

\* ------------------------------------------------------------------ bounds
NumArchives == 2      \* zip files in the dump folder
MaxRuns == 2          \* sequential runs of the script on the same folder
MaxTags == 2          \* longest tag list of a sidecar document
MaxEntries == 2       \* most entries of a probed archive

Archives == 1..NumArchives

\* ------------------------------------------------------ python value model
Absent == "absent"     \* no file at the path

RTrue == "True"
RFalse == "False"
RRaise == "Raise"      \* the call ends with an exception reaching its caller

\* --------------------------------------------------------- has_protect_tag
\* A title is a tuple of characters.
Chars ==
    {"p", "r", "o", "t", "e", "c", "P", "R", "O", "T", "E", "C", "D", "x"}

\* str.upper() on one character
UpperChar(c) ==
    CASE c = "p" -> "P"
      [] c = "r" -> "R"
      [] c = "o" -> "O"
      [] c = "t" -> "T"
      [] c = "e" -> "E"
      [] c = "c" -> "C"
      [] c = "x" -> "X"
      [] OTHER -> c

\* str.upper()
Upper(s) == [k \in 1..Len(s) |-> UpperChar(s[k])]

PROTECT == <<"P", "R", "O", "T", "E", "C", "T">>

Titles ==
    { <<"p", "r", "o", "t", "e", "c", "t">>,
      <<"P", "r", "o", "t", "e", "c", "t">>,
      PROTECT,
      <<"p", "R", "o", "T", "e", "C", "t">>,
      <<"P", "R", "O", "T", "E", "C", "T", "E", "D">>,
      <<"p", "r", "o", "t", "e", "c">>,
      <<"x">>,
      <<>> }

\* A tag entry: a dict that may or may not have the key 'title'.
NoTitle == [hasTitle |-> FALSE, title |-> <<>>]

TagEntries == {NoTitle} \cup {[hasTitle |-> TRUE, title |-> t] : t \in Titles}

\* tag.get('title', '')
GetTitle(tag) == IF tag.hasTitle THEN tag.title ELSE <<>>

TagLists == UNION {[1..n -> TagEntries] : n \in 0..MaxTags}

\* A sidecar document: a dict with `other` keys besides 'tags', and
\* possibly the key 'tags' holding a list of tag entries. None is no dict.
None == [isNone |-> TRUE, other |-> 0, hasTags |-> FALSE, tags |-> <<>>]

DocsOver(lists) ==
    {[isNone |-> FALSE, other |-> n, hasTags |-> FALSE, tags |-> <<>>] : n \in 0..1}
    \cup {[isNone |-> FALSE, other |-> n, hasTags |-> TRUE, tags |-> l] :
              n \in 0..1, l \in lists}

Docs == DocsOver(TagLists)

\* `not sidecar_data`: None and the empty dict are falsy
Falsy(doc) == doc.isNone \/ (~doc.hasTags /\ doc.other = 0)

\* ScanTags comparing the title as written, without upper()
RECURSIVE ScanTags_NoUpper(_, _)
ScanTags_NoUpper(tags, k) ==
    IF k > Len(tags) THEN FALSE
    ELSE IF GetTitle(tags[k]) = PROTECT THEN TRUE
    ELSE ScanTags_NoUpper(tags, k + 1)

\* the for loop of has_protect_tag from entry k on, with its early return
RECURSIVE ScanTags(_, _)
ScanTags(tags, k) ==
    IF k > Len(tags) THEN FALSE
    ELSE IF Upper(GetTitle(tags[k])) = PROTECT THEN TRUE
    ELSE ScanTags(tags, k + 1)

has_protect_tag(sidecar) ==
    IF Falsy(sidecar) THEN RFalse
    ELSE IF ~sidecar.hasTags THEN RFalse
    ELSE IF ScanTags(sidecar.tags, 1) THEN RTrue
    ELSE RFalse

\* ------------------------------------------------------- load_sidecar_file
\* The sidecar file as the loader meets it.
SidecarReads == {"ok", "IOError", "JSONDecodeError", "UnicodeDecodeError"}

\* raised: an exception leaves the function; value: what it returns
load_sidecar_file(exists, read, doc) ==
    IF ~exists THEN [raised |-> FALSE, value |-> None]
    ELSE IF read = "ok" THEN [raised |-> FALSE, value |-> doc]
    ELSE IF read \in {"JSONDecodeError", "IOError"}
        THEN [raised |-> FALSE, value |-> None]
    ELSE [raised |-> TRUE, value |-> None]

\* ---------------------------------------------------- is_password_protected
\* Exception messages are tuples of words.
MsgPasswordRequired ==
    <<"File", "is", "encrypted,", "password", "required", "for", "extraction">>
MsgBadPassword == <<"Bad", "password", "for", "file">>
MsgUnsupported == <<"That", "compression", "method", "is", "not", "supported">>
MsgStrongEncryption == <<"strong", "encryption", "(flag", "bit", "6)">>

\* the messages zipfile gives its RuntimeErrors, and an empty one
Messages ==
    { MsgPasswordRequired, MsgBadPassword, MsgUnsupported, MsgStrongEncryption,
      <<>> }

\* str.lower() on one word
LowerWord(w) ==
    CASE w = "Bad" -> "bad"
      [] w = "File" -> "file"
      [] w = "That" -> "that"
      [] OTHER -> w

Lower(msg) == [k \in 1..Len(msg) |-> LowerWord(msg[k])]

\* `phrase in msg`
Contains(msg, phrase) ==
    \E k \in 1..(Len(msg) - Len(phrase) + 1) :
        SubSeq(msg, k, k + Len(phrase) - 1) = phrase

\* IsPasswordError without lower() on the message
IsPasswordError_NoLower(msg) ==
    \/ Contains(msg, <<"Bad", "password">>)
    \/ Contains(msg, <<"Password", "required">>)

\* the test of line 68
IsPasswordError(msg) ==
    \/ Contains(msg, <<"Bad", "password">>)
    \/ Contains(Lower(msg), <<"password", "required">>)

\* What zipfile meets in an archive: how ZipFile() ends, how many names
\* namelist() gives, how reading one byte of the first entry ends.
OpenOutcomes == {"ok", "BadZipFile", "OSError"}
ReadOutcomes ==
    {[type |-> "ok", msg |-> <<>>],
     [type |-> "BadZipFile", msg |-> <<>>],
     [type |-> "OSError", msg |-> <<>>]}
    \cup {[type |-> "RuntimeError", msg |-> m] : m \in Messages}

ZipViews ==
    [open : OpenOutcomes, namelist : 0..MaxEntries, read : ReadOutcomes]

is_password_protected(z) ==
    IF z.open = "BadZipFile" THEN RFalse
    ELSE IF z.open # "ok" THEN RFalse
    ELSE IF z.namelist > 0
        THEN IF z.read.type = "ok" THEN RFalse
             ELSE IF z.read.type = "RuntimeError"
                 THEN IF IsPasswordError(z.read.msg) THEN RTrue ELSE RFalse
             ELSE IF z.read.type = "BadZipFile" THEN RFalse
             ELSE RFalse
    ELSE RFalse

\* ------------------------------------------------------------ file contents
\* The bytes of an archive file, by what they are.
InitKinds == {"plain", "corrupt", "encrypted"}
Rebuilt == "rebuilt"       \* the AES-256 archive written by 7-Zip
Truncated == "truncated"   \* what a copy or a tool run that broke off leaves

\* what zipfile meets in a file of this kind; io: how opening the file ends
ViewOf(kind, io) ==
    CASE kind = "plain" ->
            [open |-> io, namelist |-> 1, read |-> [type |-> "ok", msg |-> <<>>]]
      [] kind \in {"encrypted", Rebuilt} ->
            [open |-> io, namelist |-> 1,
             read |-> [type |-> "RuntimeError", msg |-> MsgPasswordRequired]]
      [] OTHER ->
            [open |-> IF io = "ok" THEN "BadZipFile" ELSE io, namelist |-> 0,
             read |-> [type |-> "ok", msg |-> <<>>]]

\* extractall() without a password can succeed on these only
Extractable(kind) == kind = "plain"

\* shutil.copy2(src, dst): how it ends and what it leaves at dst
CopyOutcomes == {"ok", "fail_open", "fail_partial", "fail_stat"}

CopyRaises(outcome) == outcome # "ok"

CopyLeaves(outcome, src, dst) ==
    CASE outcome = "ok" -> src
      [] outcome = "fail_stat" -> src
      [] outcome = "fail_partial" -> Truncated
      [] OTHER -> dst

\* --------------------------------------------------------------------- state
VARIABLES
    orig,             \* archive -> bytes at zip_path, or Absent
    backup,           \* archive -> bytes at zip_path + '.backup', or Absent
    scratch,          \* the scratch directories that exist
    run,              \* number of the current run of the script
    pc,               \* position of the script
    dump_dir_exists,  \* dump_dir.exists() as main() found it
    password,         \* os.getenv('REPO_DUMP_ZIP_PASS') as main() found it
    zip_files,        \* main(): the enumeration
    i,                \* main(): index of the current archive in zip_files
    protected_count,
    processed_count,
    sidecar_data,     \* main(): the loaded document, until the tag check
    checks,           \* main(): the checks made on the current archive, in order
    verdict,          \* main(): what each check of the current archive gave
    temp_dir,         \* recreate_zip_with_password(): temp_dir, <<>> for None
    cand,             \* recreate_zip_with_password(): index in seven_zip_paths
    seven_zip_exe,    \* recreate_zip_with_password(): the candidate chosen, or 0
    backup_made,      \* the copy2 of line 100 returned in this call
    exc,              \* the call that raised the exception leaving the handler or
                      \* the finally block, "none" when there is none
    ret,              \* the value of the return statement reached, or "unset"
    pre,              \* bytes at zip_path when the current call began
    failed_at,        \* the statement whose exception the handler of line 142
                      \* caught in the last call, "none" when there is none
    had_backup,       \* archives that had a backup when the current run began
    tool_runs,        \* archive -> times 7-Zip was run to build it, over all runs
    invoked,          \* archives the Re-encoder was called for in this run
    tally,            \* the summary was printed in this run
    tag_ret,          \* has_protect_tag: last result
    probe_arg,        \* is_password_protected: what zipfile met
    probe_ret,        \* is_password_protected: last result
    load_arg,         \* load_sidecar_file: the sidecar file it met
    load_ret          \* load_sidecar_file: how the call ended

vars ==
    << orig, backup, scratch, run, pc, dump_dir_exists, password,
       zip_files, i, protected_count, processed_count, sidecar_data, checks,
       verdict, temp_dir, cand, seven_zip_exe, backup_made, exc, ret, pre,
       failed_at, had_backup,
       tool_runs, invoked, tally, tag_ret, probe_arg,
       probe_ret, load_arg, load_ret >>

fsVars == << orig, backup, scratch >>
configVars == << dump_dir_exists, password >>
countVars == << protected_count, processed_count >>
callVars ==
    << temp_dir, cand, seven_zip_exe, backup_made, exc, ret, pre, failed_at >>
fnVars == << tag_ret, probe_arg, probe_ret, load_arg, load_ret >>

NoFile == [exists |-> FALSE, read |-> "ok", doc |-> None]
NoResult == [raised |-> FALSE, value |-> None]

NoView == [open |-> "ok", namelist |-> 0, read |-> [type |-> "ok", msg |-> <<>>]]
NoVerdict == [load |-> "unset", tag |-> "unset", backup |-> "unset", probe |-> "unset"]

\* seven_zip_paths (lines 106-111)
NumCandidates == 4

Passwords == {"unset", "", "secret"}

\* the documents the runs of main() meet: an empty dict, a dict without
\* 'tags', and tag lists with and without a PROTECT entry
MainTagLists ==
    { <<>>,
      <<NoTitle>>,
      <<[hasTitle |-> TRUE, title |-> <<"x">>]>>,
      <<[hasTitle |-> TRUE, title |-> <<"p", "r", "o", "t", "e", "c", "t">>]>>,
      <<NoTitle, [hasTitle |-> TRUE, title |-> PROTECT]>> }

MainDocs ==
    {[isNone |-> FALSE, other |-> n, hasTags |-> FALSE, tags |-> <<>>] : n \in 0..1}
    \cup {[isNone |-> FALSE, other |-> 0, hasTags |-> TRUE, tags |-> l] :
              l \in MainTagLists}

\* line 173: the files of dump_dir that exist with suffix .zip, in order
RECURSIVE Enumerate(_, _)
Enumerate(fs, a) ==
    IF a > NumArchives THEN <<>>
    ELSE (IF fs[a] # Absent THEN <<a>> ELSE <<>>) \o Enumerate(fs, a + 1)

cur == zip_files[i]

\* nothing has run yet
Fresh ==
    /\ backup = [a \in Archives |-> Absent]
    /\ scratch = {}
    /\ run = 1
    /\ dump_dir_exists = TRUE
    /\ password = "unset"
    /\ zip_files = <<>>
    /\ i = 1
    /\ protected_count = 0
    /\ processed_count = 0
    /\ checks = <<>>
    /\ verdict = NoVerdict
    /\ temp_dir = <<>>
    /\ cand = 1
    /\ seven_zip_exe = 0
    /\ backup_made = FALSE
    /\ exc = "none"
    /\ ret = "unset"
    /\ pre = Absent
    /\ failed_at = "none"
    /\ had_backup = {}
    /\ tool_runs = [a \in Archives |-> 0]
    /\ invoked = {}
    /\ tally = FALSE
    /\ tag_ret = RFalse
    /\ probe_ret = RFalse
    /\ load_ret = NoResult

\* the script is started on a folder of archives that has no backups yet
Init ==
    /\ orig \in [Archives -> InitKinds]
    /\ pc = "start"
    /\ sidecar_data = None
    /\ probe_arg = NoView
    /\ load_arg = NoFile
    /\ Fresh

\* ---------------------------------------------------------------- main()
\* `continue`, and the end of the loop body: on to the next archive
Advance ==
    /\ i' = i + 1
    /\ pc' = "load"

\* Main_Start without the password check of lines 168-170
Main_Start_IgnoringPassword ==
    /\ pc = "start"
    /\ \E d \in BOOLEAN, p \in Passwords :
        /\ dump_dir_exists' = d
        /\ password' = p
        /\ IF ~d
              THEN /\ pc' = "config_error"
                   /\ UNCHANGED zip_files
              ELSE /\ zip_files' = Enumerate(orig, 1)
                   /\ pc' = IF Enumerate(orig, 1) = <<>> THEN "no_zips" ELSE "load"
    /\ i' = 1
    /\ protected_count' = 0
    /\ processed_count' = 0
    /\ UNCHANGED << fsVars, run, sidecar_data, checks, verdict, callVars,
                    had_backup, tool_runs, invoked, tally, fnVars >>

\* lines 160-183: the configuration checks and the enumeration
Main_Start ==
    /\ pc = "start"
    /\ \E d \in BOOLEAN, p \in Passwords :
        /\ dump_dir_exists' = d
        /\ password' = p
        /\ IF ~d \/ p \in {"unset", ""}
              THEN /\ pc' = "config_error"
                   /\ UNCHANGED zip_files
              ELSE /\ zip_files' = Enumerate(orig, 1)
                   /\ pc' = IF Enumerate(orig, 1) = <<>> THEN "no_zips" ELSE "load"
    /\ i' = 1
    /\ protected_count' = 0
    /\ processed_count' = 0
    /\ UNCHANGED << fsVars, run, sidecar_data, checks, verdict, callVars,
                    had_backup, tool_runs, invoked, tally, fnVars >>

\* lines 185-191: load the sidecar of the current archive
Main_LoadSidecar ==
    /\ pc = "load"
    /\ i <= Len(zip_files)
    /\ \E exists \in BOOLEAN, read \in SidecarReads, doc \in MainDocs :
        LET r == load_sidecar_file(exists, read, doc) IN
        /\ checks' = <<"load">>
        /\ IF r.raised
              THEN /\ pc' = "crashed"
                   /\ verdict' = [NoVerdict EXCEPT !.load = "raised"]
                   /\ UNCHANGED << i, sidecar_data >>
              ELSE IF Falsy(r.value)
                  THEN /\ Advance
                       /\ verdict' = [NoVerdict EXCEPT !.load = "absent"]
                       /\ UNCHANGED sidecar_data
                  ELSE /\ pc' = "tag"
                       /\ verdict' = [NoVerdict EXCEPT !.load = "loaded"]
                       /\ sidecar_data' = r.value
                       /\ UNCHANGED i
    /\ UNCHANGED << fsVars, run, configVars, zip_files, countVars, callVars,
                    had_backup, tool_runs, invoked, tally, fnVars >>

\* Main_CheckTag counting the archives it skips
Main_CheckTag_CountingUntagged ==
    /\ pc = "tag"
    /\ checks' = Append(checks, "tag")
    /\ verdict' = [verdict EXCEPT !.tag = has_protect_tag(sidecar_data)]
    /\ sidecar_data' = None
    /\ IF has_protect_tag(sidecar_data) = RRaise
          THEN pc' = "crashed" /\ UNCHANGED << i, protected_count >>
          ELSE IF has_protect_tag(sidecar_data) = RFalse
              THEN Advance /\ protected_count' = protected_count + 1
              ELSE pc' = "backup_check" /\ UNCHANGED << i, protected_count >>
    /\ UNCHANGED << fsVars, run, configVars, zip_files, processed_count,
                    callVars, had_backup, tool_runs, invoked, tally, fnVars >>

\* lines 193-198: the tag check; the document is not read after it
Main_CheckTag ==
    /\ pc = "tag"
    /\ checks' = Append(checks, "tag")
    /\ verdict' = [verdict EXCEPT !.tag = has_protect_tag(sidecar_data)]
    /\ sidecar_data' = None
    /\ IF has_protect_tag(sidecar_data) = RRaise
          THEN pc' = "crashed" /\ UNCHANGED i
          ELSE IF has_protect_tag(sidecar_data) = RFalse
              THEN Advance
              ELSE pc' = "backup_check" /\ UNCHANGED i
    /\ UNCHANGED << fsVars, run, configVars, zip_files, countVars, callVars,
                    had_backup, tool_runs, invoked, tally, fnVars >>

\* Main_CheckBackup without the test of line 202
Main_CheckBackup_IgnoringBackup ==
    /\ pc = "backup_check"
    /\ checks' = Append(checks, "backup")
    /\ verdict' = [verdict EXCEPT !.backup = "none"]
    /\ pc' = "probe"
    /\ UNCHANGED << i, protected_count >>
    /\ UNCHANGED << fsVars, run, configVars, zip_files, processed_count,
                    sidecar_data, callVars, had_backup, tool_runs, invoked, tally,
                    fnVars >>

\* Main_CheckBackup without the count of line 204
Main_CheckBackup_NotCounting ==
    /\ pc = "backup_check"
    /\ checks' = Append(checks, "backup")
    /\ IF backup[cur] # Absent
          THEN /\ verdict' = [verdict EXCEPT !.backup = "exists"]
               /\ Advance
               /\ UNCHANGED protected_count
          ELSE /\ verdict' = [verdict EXCEPT !.backup = "none"]
               /\ pc' = "probe"
               /\ UNCHANGED << i, protected_count >>
    /\ UNCHANGED << fsVars, run, configVars, zip_files, processed_count,
                    sidecar_data, callVars, had_backup, tool_runs, invoked, tally,
                    fnVars >>

\* lines 200-205: the backup of an earlier run marks the archive as done
Main_CheckBackup ==
    /\ pc = "backup_check"
    /\ checks' = Append(checks, "backup")
    /\ IF backup[cur] # Absent
          THEN /\ verdict' = [verdict EXCEPT !.backup = "exists"]
               /\ protected_count' = protected_count + 1
               /\ Advance
          ELSE /\ verdict' = [verdict EXCEPT !.backup = "none"]
               /\ pc' = "probe"
               /\ UNCHANGED << i, protected_count >>
    /\ UNCHANGED << fsVars, run, configVars, zip_files, processed_count,
                    sidecar_data, callVars, had_backup, tool_runs, invoked, tally,
                    fnVars >>

\* Main_Probe with the test of line 208 negated
Main_Probe_Negated ==
    /\ pc = "probe"
    /\ \E io \in {"ok", "OSError"} :
        LET z == ViewOf(orig[cur], io)
            r == is_password_protected(z) IN
        /\ checks' = Append(checks, "probe")
        /\ verdict' = [verdict EXCEPT !.probe = r]
        /\ IF r = RRaise
              THEN pc' = "crashed" /\ UNCHANGED << i, protected_count >>
              ELSE IF r = RFalse
                  THEN /\ protected_count' = protected_count + 1
                       /\ Advance
                  ELSE /\ pc' = "call"
                       /\ UNCHANGED << i, protected_count >>
    /\ UNCHANGED << fsVars, run, configVars, zip_files, processed_count,
                    sidecar_data, callVars, had_backup, tool_runs, invoked, tally,
                    fnVars >>

\* lines 207-213: probe the archive
Main_Probe ==
    /\ pc = "probe"
    /\ \E io \in {"ok", "OSError"} :
        LET z == ViewOf(orig[cur], io)
            r == is_password_protected(z) IN
        /\ checks' = Append(checks, "probe")
        /\ verdict' = [verdict EXCEPT !.probe = r]
        /\ IF r = RRaise
              THEN pc' = "crashed" /\ UNCHANGED << i, protected_count >>
              ELSE IF r = RTrue
                  THEN /\ protected_count' = protected_count + 1
                       /\ Advance
                  ELSE /\ pc' = "call"
                       /\ UNCHANGED << i, protected_count >>
    /\ UNCHANGED << fsVars, run, configVars, zip_files, processed_count,
                    sidecar_data, callVars, had_backup, tool_runs, invoked, tally,
                    fnVars >>

\* line 216 and lines 84-88: enter recreate_zip_with_password
Main_Call ==
    /\ pc = "call"
    /\ pc' = "mkdtemp"
    /\ invoked' = invoked \cup {cur}
    /\ pre' = orig[cur]
    /\ temp_dir' = <<>>
    /\ cand' = 1
    /\ seven_zip_exe' = 0
    /\ backup_made' = FALSE
    /\ exc' = "none"
    /\ ret' = "unset"
    /\ failed_at' = "none"
    /\ UNCHANGED << fsVars, run, configVars, zip_files, i, countVars,
                    sidecar_data, checks, verdict, had_backup, tool_runs, tally,
                    fnVars >>

\* Main_AfterCall without the test of line 216
Main_AfterCall_CountingFailures ==
    /\ pc = "after_call"
    /\ protected_count' = protected_count + 1
    /\ processed_count' = processed_count + 1
    /\ Advance
    /\ ret' = "unset"
    /\ failed_at' = "none"
    /\ UNCHANGED << fsVars, run, configVars, zip_files, sidecar_data, checks,
                    verdict, temp_dir, cand, seven_zip_exe, backup_made, exc, pre,
                    had_backup,
                    tool_runs, invoked, tally, fnVars >>

\* lines 216-218: count a successful re-encoding
Main_AfterCall ==
    /\ pc = "after_call"
    /\ IF ret = RTrue
          THEN /\ protected_count' = protected_count + 1
               /\ processed_count' = processed_count + 1
          ELSE UNCHANGED countVars
    /\ Advance
    /\ ret' = "unset"
    /\ failed_at' = "none"
    /\ UNCHANGED << fsVars, run, configVars, zip_files, sidecar_data, checks,
                    verdict, temp_dir, cand, seven_zip_exe, backup_made, exc, pre,
                    had_backup,
                    tool_runs, invoked, tally, fnVars >>

\* lines 220-224: the loop is over, print the summary
Main_Summary ==
    /\ pc = "load"
    /\ i > Len(zip_files)
    /\ tally' = TRUE
    /\ pc' = "done"
    /\ UNCHANGED << fsVars, run, configVars, zip_files, i, countVars,
                    sidecar_data, checks, verdict, callVars, had_backup, tool_runs,
                    invoked, fnVars >>

\* -------------------------------------------- recreate_zip_with_password()
mainVars ==
    << run, configVars, zip_files, i, countVars, sidecar_data, checks, verdict,
       had_backup, invoked, tally, fnVars >>

\* line 91: tempfile.mkdtemp(). The new directory is named by the run: a run
\* that fails to remove its directory ends with the call, so a run never has
\* two of its own.
R_Mkdtemp ==
    /\ pc = "mkdtemp"
    /\ \E ok \in BOOLEAN :
        IF ok
           THEN /\ temp_dir' = <<run>>
                /\ scratch' = scratch \cup {<<run>>}
                /\ pc' = "extract"
                /\ UNCHANGED failed_at
           ELSE /\ pc' = "except"
                /\ failed_at' = "mkdtemp"
                /\ UNCHANGED << temp_dir, scratch >>
    /\ UNCHANGED << orig, backup, cand, seven_zip_exe, backup_made, exc, ret,
                    tool_runs, pre, mainVars >>

\* lines 95-96: extract the archive into the scratch directory
R_Extract ==
    /\ pc = "extract"
    /\ \E ok \in BOOLEAN :
        IF ok /\ Extractable(orig[cur])
           THEN pc' = "backup" /\ UNCHANGED failed_at
           ELSE pc' = "except" /\ failed_at' = "extract"
    /\ UNCHANGED << fsVars, temp_dir, cand, seven_zip_exe, backup_made, exc, ret,
                    pre, tool_runs, mainVars >>

\* R_Backup with a failed copy going unnoticed
R_Backup_FailureUnnoticed ==
    /\ pc = "backup"
    /\ \E o \in CopyOutcomes :
        /\ backup' = [backup EXCEPT ![cur] = CopyLeaves(o, orig[cur], backup[cur])]
        /\ pc' = "locate"
        /\ backup_made' = ~CopyRaises(o)
    /\ UNCHANGED failed_at
    /\ UNCHANGED << orig, scratch, temp_dir, cand, seven_zip_exe, exc, ret,
                    tool_runs, pre, mainVars >>

\* lines 99-101: copy the archive to the backup path
R_Backup ==
    /\ pc = "backup"
    /\ \E o \in CopyOutcomes :
        /\ backup' = [backup EXCEPT ![cur] = CopyLeaves(o, orig[cur], backup[cur])]
        /\ IF CopyRaises(o)
              THEN pc' = "except" /\ failed_at' = "copy2" /\ UNCHANGED backup_made
              ELSE pc' = "locate" /\ backup_made' = TRUE /\ UNCHANGED failed_at
    /\ UNCHANGED << orig, scratch, temp_dir, cand, seven_zip_exe, exc, ret,
                    tool_runs, pre, mainVars >>

\* how launching a candidate of seven_zip_paths ends
LaunchOutcomes == {"launched", "FileNotFoundError", "OSError"}

\* lines 113-123: try the candidate at index cand. seven_zip_exe is 0 for
\* None. The loop variable is not read after the loop, and seven_zip_exe is
\* read last by line 134: the model forgets each after its last use.
R_Locate ==
    /\ pc = "locate"
    /\ \E o \in LaunchOutcomes :
        CASE o = "launched" ->
                /\ pc' = "unlink" /\ seven_zip_exe' = cand /\ cand' = 1
                /\ UNCHANGED failed_at
          [] o = "FileNotFoundError" ->
                IF cand < NumCandidates
                   THEN /\ cand' = cand + 1
                        /\ UNCHANGED << pc, seven_zip_exe, failed_at >>
                   ELSE /\ pc' = "except" /\ cand' = 1
                        /\ failed_at' = "not_found"
                        /\ UNCHANGED seven_zip_exe
          [] OTHER -> /\ pc' = "except" /\ cand' = 1
                      /\ failed_at' = "launch"
                      /\ UNCHANGED seven_zip_exe
    /\ UNCHANGED << fsVars, temp_dir, backup_made, exc, ret, tool_runs, pre, mainVars >>

\* line 132: zip_path.unlink()
R_Unlink ==
    /\ pc = "unlink"
    /\ \E ok \in BOOLEAN :
        IF ok
           THEN /\ orig' = [orig EXCEPT ![cur] = Absent]
                /\ pc' = "run_tool"
                /\ UNCHANGED << seven_zip_exe, failed_at >>
           ELSE /\ pc' = "except"
                /\ failed_at' = "unlink"
                /\ seven_zip_exe' = 0
                /\ UNCHANGED orig
    /\ UNCHANGED << backup, scratch, temp_dir, cand, backup_made, exc, ret, pre,
                    tool_runs, mainVars >>

\* how the 7-Zip run of line 134 ends, and what it leaves at zip_path
ToolOutcomes ==
    {"exit0", "nonzero_nothing", "nonzero_partial", "nonzero_written", "OSError"}

ToolLeaves(o, dst) ==
    CASE o \in {"exit0", "nonzero_written"} -> Rebuilt
      [] o = "nonzero_partial" -> Truncated
      [] OTHER -> dst

\* R_RunTool without the test of line 136
R_RunTool_IgnoringExitStatus ==
    /\ pc = "run_tool"
    /\ tool_runs' = [tool_runs EXCEPT ![cur] = @ + 1]
    /\ seven_zip_exe' = 0
    /\ \E o \in ToolOutcomes :
        /\ orig' = [orig EXCEPT ![cur] = ToolLeaves(o, orig[cur])]
        /\ IF o # "OSError"
              THEN pc' = "finally" /\ ret' = RTrue /\ UNCHANGED failed_at
              ELSE pc' = "except" /\ failed_at' = "7z" /\ UNCHANGED ret
    /\ UNCHANGED << backup, scratch, temp_dir, cand, backup_made, exc, pre, mainVars >>

\* lines 134-140: run 7-Zip and look at its exit status
R_RunTool ==
    /\ pc = "run_tool"
    /\ tool_runs' = [tool_runs EXCEPT ![cur] = @ + 1]
    /\ seven_zip_exe' = 0
    /\ \E o \in ToolOutcomes :
        /\ orig' = [orig EXCEPT ![cur] = ToolLeaves(o, orig[cur])]
        /\ IF o = "exit0"
              THEN pc' = "finally" /\ ret' = RTrue /\ UNCHANGED failed_at
              ELSE pc' = "except" /\ failed_at' = "7z" /\ UNCHANGED ret
    /\ UNCHANGED << backup, scratch, temp_dir, cand, backup_made, exc, pre, mainVars >>

\* R_Except with the backup removed once the archive is restored
R_Except_RemovingBackup ==
    /\ pc = "except"
    /\ pc' = "finally"
    /\ IF backup[cur] # Absent
          THEN \E o \in CopyOutcomes :
                /\ orig' = [orig EXCEPT ![cur] = CopyLeaves(o, backup[cur], orig[cur])]
                /\ IF CopyRaises(o)
                      THEN exc' = "copy2" /\ UNCHANGED << ret, backup >>
                      ELSE /\ ret' = RFalse
                           /\ backup' = [backup EXCEPT ![cur] = Absent]
                           /\ UNCHANGED exc
          ELSE ret' = RFalse /\ UNCHANGED << orig, backup, exc >>
    /\ UNCHANGED << scratch, temp_dir, cand, seven_zip_exe, backup_made,
                    tool_runs, pre, failed_at, mainVars >>

\* R_Except without the copy of line 147
R_Except_NoRestore ==
    /\ pc = "except"
    /\ pc' = "finally"
    /\ ret' = RFalse
    /\ UNCHANGED << fsVars, temp_dir, cand, seven_zip_exe, backup_made, exc,
                    tool_runs, pre, failed_at, mainVars >>

\* lines 142-149: the handler restores the archive from the backup
R_Except ==
    /\ pc = "except"
    /\ pc' = "finally"
    /\ IF backup[cur] # Absent
          THEN \E o \in CopyOutcomes :
                /\ orig' = [orig EXCEPT ![cur] = CopyLeaves(o, backup[cur], orig[cur])]
                /\ IF CopyRaises(o)
                      THEN exc' = "copy2" /\ UNCHANGED ret
                      ELSE ret' = RFalse /\ UNCHANGED exc
          ELSE ret' = RFalse /\ UNCHANGED << orig, exc >>
    /\ UNCHANGED << backup, scratch, temp_dir, cand, seven_zip_exe, backup_made,
                    tool_runs, pre, failed_at, mainVars >>

\* R_Finally as a cleanup that only the successful path reaches
R_Finally_OnlyOnSuccess ==
    /\ pc = "finally"
    /\ pc' = "return"
    /\ IF ret = RTrue /\ temp_dir # <<>> /\ temp_dir \in scratch
          THEN \E ok \in BOOLEAN :
                IF ok
                   THEN scratch' = scratch \ {temp_dir} /\ UNCHANGED exc
                   ELSE exc' = "rmtree" /\ UNCHANGED scratch
          ELSE UNCHANGED << scratch, exc >>
    /\ UNCHANGED << orig, backup, temp_dir, cand, seven_zip_exe, backup_made, ret,
                    tool_runs, pre, failed_at, mainVars >>

\* lines 151-154: remove the scratch directory
R_Finally ==
    /\ pc = "finally"
    /\ pc' = "return"
    /\ IF temp_dir # <<>> /\ temp_dir \in scratch
          THEN \E ok \in BOOLEAN :
                IF ok
                   THEN scratch' = scratch \ {temp_dir} /\ UNCHANGED exc
                   ELSE exc' = "rmtree" /\ UNCHANGED scratch
          ELSE UNCHANGED << scratch, exc >>
    /\ UNCHANGED << orig, backup, temp_dir, cand, seven_zip_exe, backup_made, ret,
                    tool_runs, pre, failed_at, mainVars >>

\* the call ends: its value reaches line 216, or its exception leaves main();
\* its locals are gone
R_Return ==
    /\ pc = "return"
    /\ pc' = IF exc # "none" THEN "crashed" ELSE "after_call"
    /\ temp_dir' = <<>>
    /\ cand' = 1
    /\ seven_zip_exe' = 0
    /\ backup_made' = FALSE
    /\ exc' = "none"
    /\ pre' = Absent
    /\ UNCHANGED << fsVars, ret, failed_at, tool_runs, mainVars >>

\* ------------------------------------------------------------ the next run
RunOver == pc \in {"done", "crashed", "config_error", "no_zips"}

\* the script is started again on the folder as the last run left it
NextRun ==
    /\ RunOver
    /\ run < MaxRuns
    /\ run' = run + 1
    /\ pc' = "start"
    /\ zip_files' = <<>>
    /\ i' = 1
    /\ protected_count' = 0
    /\ processed_count' = 0
    /\ sidecar_data' = None
    /\ checks' = <<>>
    /\ verdict' = NoVerdict
    /\ temp_dir' = <<>>
    /\ cand' = 1
    /\ seven_zip_exe' = 0
    /\ backup_made' = FALSE
    /\ exc' = "none"
    /\ ret' = "unset"
    /\ pre' = Absent
    /\ failed_at' = "none"
    /\ had_backup' = {a \in Archives : backup[a] # Absent}
    /\ invoked' = {}
    /\ tally' = FALSE
    /\ dump_dir_exists' = TRUE
    /\ password' = "unset"
    /\ UNCHANGED << fsVars, tool_runs, fnVars >>

Next ==
    \/ Main_Start
    \/ Main_LoadSidecar
    \/ Main_CheckTag
    \/ Main_CheckBackup
    \/ Main_Probe
    \/ Main_Call
    \/ Main_AfterCall
    \/ Main_Summary
    \/ R_Mkdtemp
    \/ R_Extract
    \/ R_Backup
    \/ R_Locate
    \/ R_Unlink
    \/ R_RunTool
    \/ R_Except
    \/ R_Finally
    \/ R_Return
    \/ NextRun

Spec == Init /\ [][Next]_vars

\* ------------------------------------------- has_protect_tag on its own
InitTag ==
    /\ orig = [a \in Archives |-> "plain"]
    /\ pc = "tag_call"
    /\ sidecar_data \in Docs \cup {None}
    /\ probe_arg = NoView
    /\ load_arg = NoFile
    /\ Fresh

Tag_Call ==
    /\ pc = "tag_call"
    /\ tag_ret' = has_protect_tag(sidecar_data)
    /\ pc' = "tag_done"
    /\ UNCHANGED << fsVars, run, configVars, zip_files, i, countVars,
                    sidecar_data, checks, verdict, callVars, had_backup,
                    tool_runs, invoked, tally, probe_arg, probe_ret, load_arg,
                    load_ret >>

SpecTag == InitTag /\ [][Tag_Call]_vars

\* ------------------------------------- is_password_protected on its own
InitProbe ==
    /\ orig = [a \in Archives |-> "plain"]
    /\ pc = "probe_call"
    /\ sidecar_data = None
    /\ probe_arg \in ZipViews
    /\ load_arg = NoFile
    /\ Fresh

Probe_Call ==
    /\ pc = "probe_call"
    /\ probe_ret' = is_password_protected(probe_arg)
    /\ pc' = "probe_done"
    /\ UNCHANGED << fsVars, run, configVars, zip_files, i, countVars,
                    sidecar_data, checks, verdict, callVars, had_backup,
                    tool_runs, invoked, tally, tag_ret, probe_arg, load_arg,
                    load_ret >>

SpecProbe == InitProbe /\ [][Probe_Call]_vars

\* -------------------------------- recreate_zip_with_password on its own
\* the function is called for one archive of a folder in any state: a file
\* may already be at any backup path
InitCall ==
    /\ orig \in [Archives -> InitKinds]
    /\ backup \in [Archives -> InitKinds \cup {Absent}]
    /\ zip_files \in {<< a >> : a \in Archives}
    /\ pc = "call"
    /\ scratch = {}
    /\ run = 1
    /\ dump_dir_exists = TRUE
    /\ password = "secret"
    /\ i = 1
    /\ protected_count = 0
    /\ processed_count = 0
    /\ sidecar_data = None
    /\ checks = <<>>
    /\ verdict = NoVerdict
    /\ temp_dir = <<>>
    /\ cand = 1
    /\ seven_zip_exe = 0
    /\ backup_made = FALSE
    /\ exc = "none"
    /\ ret = "unset"
    /\ pre = Absent
    /\ failed_at = "none"
    /\ had_backup = {a \in Archives : backup[a] # Absent}
    /\ tool_runs = [a \in Archives |-> 0]
    /\ invoked = {}
    /\ tally = FALSE
    /\ tag_ret = RFalse
    /\ probe_arg = NoView
    /\ probe_ret = RFalse
    /\ load_arg = NoFile
    /\ load_ret = NoResult

NextCall ==
    \/ Main_Call
    \/ R_Mkdtemp
    \/ R_Extract
    \/ R_Backup
    \/ R_Locate
    \/ R_Unlink
    \/ R_RunTool
    \/ R_Except
    \/ R_Finally
    \/ R_Return

SpecCall == InitCall /\ [][NextCall]_vars

\* ----------------------------------------- load_sidecar_file on its own
SidecarFiles == [exists : BOOLEAN, read : SidecarReads, doc : Docs]

InitLoad ==
    /\ orig = [a \in Archives |-> "plain"]
    /\ pc = "load_call"
    /\ sidecar_data = None
    /\ probe_arg = NoView
    /\ load_arg \in SidecarFiles
    /\ Fresh

Load_Call ==
    /\ pc = "load_call"
    /\ load_ret' = load_sidecar_file(load_arg.exists, load_arg.read, load_arg.doc)
    /\ pc' = "load_done"
    /\ UNCHANGED << fsVars, run, configVars, zip_files, i, countVars,
                    sidecar_data, checks, verdict, callVars, had_backup,
                    tool_runs, invoked, tally, tag_ret, probe_arg, probe_ret,
                    load_arg >>

SpecLoad == InitLoad /\ [][Load_Call]_vars

\* =================================================================== claims
\* the script is inside recreate_zip_with_password
InCall ==
    pc \in {"mkdtemp", "extract", "backup", "locate", "unlink", "run_tool",
            "except", "finally", "return"}

\* the script is in main(), between two calls of the re-encoder
InLoop == pc \in {"load", "tag", "backup_check", "probe", "call", "after_call"}

\* C1: the archive is deleted only after its backup was written in full: in
\* no state is an archive's path empty without a complete backup, the
\* deletion of line 132 is always preceded by a copy2 that returned, and
\* while the call runs the backup of a deleted archive holds the bytes the
\* archive had when the call began.
C1_DeletedOnlyAfterBackup ==
    /\ \A a \in Archives :
          orig[a] = Absent => backup[a] \notin {Absent, Truncated}
    /\ pc = "run_tool" => backup_made
    /\ InCall /\ orig[cur] = Absent => backup_made /\ backup[cur] = pre

\* C1 witness: a call ends with the archive deleted, the restoring copy having
\* failed, and the backup holding the archive's bytes
C1_Witness ==
    /\ pc = "return"
    /\ exc = "copy2"
    /\ orig[cur] = Absent
    /\ backup[cur] = pre

C4_RunLeavesBackedUpArchives ==
    [][run' = run =>
          \A a \in had_backup :
              /\ orig'[a] = orig[a]
              /\ backup'[a] = backup[a]
              /\ a \notin invoked']_vars

\* C4 witness: a second run is over that met one archive re-encoded by the
\* first run and one archive whose re-encoding failed in the first run
C4_Witness ==
    /\ run = 2
    /\ pc = "done"
    /\ \E a, b \in had_backup :
          /\ orig[a] = Rebuilt
          /\ orig[b] = "plain"
          /\ tool_runs[b] = 1

\* C5: over all runs 7-Zip is run at most once to build an archive, and a
\* step that deletes or rewrites an archive is a step of a call made after
\* the backup check of the same iteration found no backup.
C5_ToolAtMostOnceAfterBackupCheck ==
    [][/\ \A a \in Archives : tool_runs'[a] <= 1
       /\ \A a \in Archives :
             orig'[a] # orig[a] =>
                 /\ InCall
                 /\ cur = a
                 /\ Len(checks) >= 3
                 /\ checks[3] = "backup"
                 /\ verdict.backup = "none"]_vars

\* C5 witness: the second run skips, at the backup check, an archive that the
\* first run ran 7-Zip for without success
C5_Witness ==
    /\ run = 2
    /\ pc = "load"
    /\ i > 1
    /\ verdict.backup = "exists"
    /\ tool_runs[zip_files[i - 1]] = 1
    /\ orig[zip_files[i - 1]] = "plain"

\* the order of the checks of the loop body
CheckOrder == <<"load", "tag", "backup", "probe">>

\* all four checks of the current iteration let the archive through
AllPassed ==
    /\ verdict.load = "loaded"
    /\ verdict.tag = RTrue
    /\ verdict.backup = "none"
    /\ verdict.probe = RFalse

\* C6: the checks of an iteration are made in the order load, tag, backup,
\* probe, each only if the one before let the archive through; the
\* re-encoder is entered only after all four did, and an iteration that is
\* over has called the re-encoder exactly if all four did.
C6_InvokedIffFourChecksPass ==
    /\ checks = SubSeq(CheckOrder, 1, Len(checks))
    /\ verdict.load # "unset" <=> Len(checks) >= 1
    /\ verdict.tag # "unset" <=> Len(checks) >= 2
    /\ verdict.backup # "unset" <=> Len(checks) >= 3
    /\ verdict.probe # "unset" <=> Len(checks) >= 4
    /\ Len(checks) >= 2 => verdict.load = "loaded"
    /\ Len(checks) >= 3 => verdict.tag = RTrue
    /\ Len(checks) >= 4 => verdict.backup = "none"
    /\ pc = "call" \/ InCall \/ pc = "after_call" => AllPassed
    /\ InCall \/ pc = "after_call" => cur \in invoked
    /\ InLoop /\ pc \notin {"call", "after_call"} /\ i <= Len(zip_files)
          => cur \notin invoked
    /\ pc \in {"load", "done"} /\ i > 1 =>
          (zip_files[i - 1] \in invoked <=> AllPassed)
    /\ pc = "call" => backup[cur] = Absent
    /\ pc \in {"load", "done"} /\ i > 1 /\ verdict.backup = "exists"
          => backup[zip_files[i - 1]] # Absent

\* C6 witness: the first archive passed all four checks and its re-encoding
\* is over
C6_Witness ==
    /\ pc = "load"
    /\ i = 2
    /\ AllPassed
    /\ zip_files[1] \in invoked

\* C7: is_password_protected never raises, and it returns True exactly when
\* the archive opens, has an entry, and reading the first entry fails with
\* the password-required or the bad-password error of zipfile.
C7_ProbeTrueOnlyOnPasswordError ==
    pc = "probe_done" =>
        /\ probe_ret \in {RTrue, RFalse}
        /\ probe_ret = RTrue <=>
              /\ probe_arg.open = "ok"
              /\ probe_arg.namelist >= 1
              /\ probe_arg.read.type = "RuntimeError"
              /\ probe_arg.read.msg \in {MsgPasswordRequired, MsgBadPassword}

\* C7 witness: the probe of an archive whose first entry asks for a password
C7_Witness ==
    /\ pc = "probe_done"
    /\ probe_ret = RTrue
    /\ probe_arg.read.msg = MsgPasswordRequired

\* the spellings of the tag title that upper-case to PROTECT
ProtectSpellings ==
    { <<"p", "r", "o", "t", "e", "c", "t">>,
      <<"P", "r", "o", "t", "e", "c", "t">>,
      <<"P", "R", "O", "T", "E", "C", "T">>,
      <<"p", "R", "o", "T", "e", "C", "t">> }

\* C8: has_protect_tag never raises, and it returns True exactly when the
\* document is there, has a tag list, and an entry of the list has a title
\* spelling PROTECT in any case.
C8_TagTrueOnlyOnProtectTitle ==
    pc = "tag_done" =>
        /\ tag_ret \in {RTrue, RFalse}
        /\ tag_ret = RTrue <=>
              /\ ~sidecar_data.isNone
              /\ sidecar_data.hasTags
              /\ \E k \in 1..Len(sidecar_data.tags) :
                    /\ sidecar_data.tags[k].hasTitle
                    /\ sidecar_data.tags[k].title \in ProtectSpellings

\* C8 witness: a lower-case protect entry after an entry without a title
C8_Witness ==
    /\ pc = "tag_done"
    /\ tag_ret = RTrue
    /\ sidecar_data.tags = <<NoTitle, [hasTitle |-> TRUE,
                                        title |-> <<"p", "r", "o", "t", "e", "c", "t">>]>>

\* C9: the return value becomes True only in the step that ran 7-Zip with
\* exit status 0, made after the extraction, the backup, the choice of a
\* 7-Zip and the deletion of the archive all succeeded; the handler is not
\* entered afterwards; and when True reaches main() the archive path holds
\* the archive 7-Zip wrote and the backup holds the unprotected bytes the
\* archive had when the call began.
C9_TrueOnlyAfterFullSuccess ==
    [][/\ ret' = RTrue /\ ret # RTrue =>
             /\ pc = "run_tool"
             /\ temp_dir \in scratch
             /\ Extractable(pre)
             /\ backup_made
             /\ backup[cur] = pre
             /\ seven_zip_exe \in 1..NumCandidates
             /\ orig[cur] = Absent
             /\ orig'[cur] = Rebuilt
             /\ exc = "none"
       /\ InCall /\ ret = RTrue => pc' # "except"
       /\ pc' = "after_call" /\ ret = RTrue =>
             /\ orig[cur] = Rebuilt
             /\ backup[cur] = pre
             /\ pre = "plain"
             /\ exc = "none"]_vars

\* C9 witness: True has reached main(), the rebuilt archive and the backup of
\* the plain archive are in place
C9_Witness ==
    /\ pc = "after_call"
    /\ ret = RTrue
    /\ orig[cur] = Rebuilt
    /\ backup[cur] = "plain"

\* C10 as claimed: a run that found its configuration and at least one
\* archive ends only with every archive of the enumeration examined and the
\* summary printed, whatever failed on the way.
C10_BatchNeverAborts ==
    RunOver /\ pc \notin {"config_error", "no_zips"} =>
        /\ tally
        /\ i > Len(zip_files)

\* C11 as claimed: load_sidecar_file ends without an exception whatever the
\* sidecar file is, giving the parsed document or None.
C11_LoadNeverRaises ==
    pc = "load_done" =>
        /\ ~load_ret.raised
        /\ load_ret.value \in Docs \cup {None}

\* C12: the run leaves alone every archive it does not hand to the
\* re-encoder: an archive's bytes or backup change only in a step of the call
\* made for that archive, so an archive skipped for its sidecar, its tag or
\* its protection keeps both; and the steps that skip an archive for a
\* missing sidecar or a missing tag change neither counter.
C12_SkippedArchivesUntouched ==
    [][ /\ \A a \in Archives :
              (orig'[a] # orig[a] \/ backup'[a] # backup[a]) =>
                  InCall /\ a = cur /\ a \in invoked
        /\ pc \in {"load", "tag"} => UNCHANGED countVars
        /\ \A a \in Archives \ invoked' :
              pc' # "start" => (backup'[a] # Absent <=> a \in had_backup') ]_vars

\* C12 witness: a run over two archives ends having called the re-encoder
\* for neither: one was skipped as protected, the other for its sidecar or tag
C12_Witness ==
    /\ tally
    /\ Len(zip_files) = 2
    /\ invoked = {}
    /\ protected_count = 1
    /\ had_backup = {}

\* C13: a run whose dump directory is missing or whose password is unset or
\* empty ends at the configuration checks: it has listed no archive, made no
\* check, called nothing, created no backup and no scratch directory, and the
\* step that ends it leaves the files alone.
C13_ConfigErrorTouchesNothing ==
    /\ [](pc # "start" /\ (~dump_dir_exists \/ password \in {"unset", ""})
            => pc = "config_error")
    /\ [](pc = "config_error" =>
            /\ zip_files = <<>>
            /\ checks = <<>>
            /\ verdict = NoVerdict
            /\ invoked = {}
            /\ temp_dir = <<>>
            /\ <<run>> \notin scratch
            /\ \A a \in Archives : backup[a] # Absent <=> a \in had_backup)
    /\ [][pc = "start" \/ pc = "config_error"
            => UNCHANGED << fsVars, tool_runs >>]_vars

\* C13 witness: a second run ends at the password check, after a first run
\* that re-encoded an archive
C13_Witness ==
    /\ pc = "config_error"
    /\ run = 2
    /\ dump_dir_exists
    /\ password = ""
    /\ had_backup # {}

\* C14 as claimed: when the extraction of lines 95-96 fails, whatever files
\* the call found (a file at the backup path included), the call writes no
\* backup, never runs 7-Zip, leaves the archive's bytes as they were, and
\* returns False.
C14_ExtractFailureTouchesNothing ==
    /\ [][failed_at' = "extract" =>
            backup' = backup /\ tool_runs' = tool_runs]_vars
    /\ [](failed_at = "extract" /\ pc \in {"finally", "return"} =>
            orig[cur] = pre)
    /\ [](failed_at = "extract" /\ pc \in {"after_call", "crashed"} =>
            pc = "after_call" /\ ret = RFalse)

\* C15 as claimed: the search of lines 113-120 passes over every candidate
\* that cannot be launched, for whatever reason, and takes the first one that
\* can; the call fails at the search only when the last candidate could not
\* be launched either, and then the archive is still at its path.
C15_FirstLaunchableCandidateChosen ==
    /\ [][pc = "locate" =>
            /\ pc' = "unlink" => seven_zip_exe' = cand
            /\ pc' = "locate" => cand' = cand + 1
            /\ pc' = "except" => cand = NumCandidates]_vars
    /\ [](failed_at \in {"not_found", "launch"} => orig[cur] # Absent)

\* C16: for a tagged archive whose backup exists the run looks at the backup
\* before it probes: the step that finds the backup ends the archive's turn
\* with the checks load, tag, backup and no probe, adds one to
\* protected_count and nothing to processed_count, calls nothing and touches
\* no file; and an archive is probed only after its backup was found missing.
C16_BackupCheckedBeforeProbe ==
    /\ [][pc = "backup_check" /\ backup[cur] # Absent =>
            /\ verdict.tag = RTrue
            /\ checks' = << "load", "tag", "backup" >>
            /\ verdict'.probe = "unset"
            /\ pc' = "load" /\ i' = i + 1
            /\ protected_count' = protected_count + 1
            /\ UNCHANGED << processed_count, fsVars, tool_runs, invoked >>]_vars
    /\ [](/\ pc = "probe" => verdict.backup = "none" /\ backup[cur] = Absent
          /\ verdict.probe # "unset" => verdict.backup = "none"
          /\ verdict.backup = "exists" =>
                verdict.probe = "unset" /\ zip_files[i - 1] \notin invoked)

\* C16 witness: a second run has just skipped, for its backup, an archive
\* that the first run re-encoded
C16_Witness ==
    /\ run = 2
    /\ pc = "load"
    /\ verdict.backup = "exists"
    /\ protected_count = 1
    /\ processed_count = 0
    /\ i = 2
    /\ orig[zip_files[1]] = Rebuilt

\* what 7-Zip's -p archive and an archive that was encrypted from the start
\* have in common: the probe of an intact read finds them password-protected
Protected(kind) == is_password_protected(ViewOf(kind, "ok")) = RTrue

\* C17 as claimed: an archive that a run counts as protected because its
\* backup exists is password-protected at its path.
C17_BackupImpliesProtected ==
    verdict.backup = "exists" => Protected(orig[zip_files[i - 1]])

\* C18: the counters move only as the loop prescribes: a skip for an existing
\* backup and a skip for a protected archive each add one to
\* protected_count, a call that returned True adds one to both counters, a
\* call that returned False and every other step of the run add nothing;
\* processed_count never exceeds protected_count, which never exceeds the
\* number of archives the loop has finished; and at the summary
\* processed_count is the number of archives re-encoded in this run.
C18_CountsFollowOutcomes ==
    /\ [][pc' # "start" =>
            /\ protected_count' - protected_count =
                  IF \/ pc = "backup_check" /\ backup[cur] # Absent
                     \/ pc = "probe" /\ verdict'.probe = RTrue
                     \/ pc = "after_call" /\ ret = RTrue
                  THEN 1 ELSE 0
            /\ processed_count' - processed_count =
                  IF pc = "after_call" /\ ret = RTrue THEN 1 ELSE 0]_vars
    /\ [](/\ 0 <= processed_count
          /\ processed_count <= protected_count
          /\ protected_count <= i - 1
          /\ processed_count <= Cardinality(invoked))
    /\ [](tally =>
            /\ processed_count =
                  Cardinality({a \in invoked : orig[a] = Rebuilt})
            /\ protected_count - processed_count
                  <= Len(zip_files) - Cardinality(invoked))

\* C18 witness: a run ends with its summary after one archive was re-encoded
\* and the call for another returned False
C18_Witness ==
    /\ tally
    /\ Cardinality(invoked) = 2
    /\ processed_count = 1
    /\ protected_count = 1

\* C19 as claimed: a backup, once it exists, is never removed or written
\* again, and holds the bytes the archive had when the call that made the
\* backup began.
C19_BackupKeepsOriginalBytes ==
    /\ [][\A a \in Archives :
            backup[a] # Absent => backup'[a] = backup[a]]_vars
    /\ [](InCall /\ backup[cur] # Absent => backup[cur] = pre)
    /\ [](\A a \in Archives : backup[a] \in InitKinds \cup {Absent})

====
